---- MODULE Spec2Model ----
(***************************************************************************)
(* Competition assessment and content-length estimation of the SEO brief   *)
(* generator (src/src/simple_seo_brief.py), the main() pipeline around     *)
(* them, the assessment of the web-UI variant                              *)
(* (Backups/streamlit_app_backup.py) and the concurrent source fetch of    *)
(* the multi-agent variant (seo_crew.py).                                  *)
(*                                                                         *)
(* Specifications.                                                         *)
(*   SpecEstimate   estimate_content_length alone, over page word counts   *)
(*   SpecFetch      the same over every outcome of the page request        *)
(*   SpecParallel   the same with the fetches completing in any order      *)
(*   Spec           calculate_competition_assessment on well-formed input  *)
(*   SpecAnyInput   the same with fields missing or null                   *)
(*   SpecStreamlit  the assessment of the web-UI variant                   *)
(*   SpecMain       main(): the steps of the pipeline over the answers of  *)
(*                  the data provider, the pages and the LLM               *)
(*   SpecCrew       concurrent_fetch_sources of seo_crew.py: the futures   *)
(*                  of a thread pool finishing in any order                *)
(* An exception that leaves the modelled function is pc = "raised".        *)
(*                                                                         *)
(* Numbers.  Python computes the scores and averages in binary floating    *)
(* point.  The model keeps them as exact fractions [num, den] and states   *)
(* where the floating-point result differs from the exact one:             *)
(*   - round(x, 1) on a decimal tie (x.x5) goes to either neighbour,       *)
(*     depending on the binary representation of x: Round1 returns both;   *)
(*   - int(avg * 1.2) truncates below the exact product for some averages  *)
(*     that are not representable in binary: IntTimes12 computes when.     *)
(* Scores stored after round(.., 1) are kept in tenths (97.0 is 970).      *)
(***************************************************************************)
EXTENDS Integers, Sequences, FiniteSets, TLC

VARIABLES
    your_domain_metrics,      \* argument: [pos_1, etv, keywords]
    competitor_metrics_dict,  \* argument: domain -> [pos_1, etv, keywords]
    serp_results,             \* argument: sequence of [domain, position, url]
    fetch_outcome,            \* url -> what requests.get(url) gives in this run
    provider,                 \* main: what the external services answer in this run
    main,                     \* main: its local variables
    pc,                       \* position in the code
    fetched_urls,             \* urls requested so far, in order
    word_counts,              \* estimate_content_length: local list
    detailed_estimates,       \* estimate_content_length: local list
    content_length_analysis,  \* result of estimate_content_length
    competitor_analysis,      \* calculate_competition_assessment: local list
    scan,                     \* index of the next SERP entry of the scoring loop
    assessment,               \* the returned CompetitionAssessment
    urls,                     \* concurrent_fetch_sources: argument
    max_workers,              \* concurrent_fetch_sources: argument
    future_map,               \* concurrent_fetch_sources: each future with its url
    results                   \* concurrent_fetch_sources: local list

vars == <<your_domain_metrics, competitor_metrics_dict, serp_results, fetch_outcome,
          provider, main, pc, fetched_urls, word_counts, detailed_estimates, content_length_analysis,
          competitor_analysis, scan, assessment, urls, max_workers, future_map, results>>

\* the variables of concurrent_fetch_sources
crew == <<urls, max_workers, future_map, results>>

inputs == <<your_domain_metrics, competitor_metrics_dict, serp_results, fetch_outcome,
            provider>>

----------------------------------------------------------------------------
(* Bounds of the model *)

MaxSerp == 6

MaxPages == 5

----------------------------------------------------------------------------
(* Values *)

None == -1

NoResult == [none |-> TRUE]

\* dict.get(key, default); a key whose value is null gives None, not the default
Get(dict, key, default) == IF key \in DOMAIN dict THEN dict[key] ELSE default

Min(a, b) == IF a <= b THEN a ELSE b

RECURSIVE GCD(_, _)
GCD(a, b) == IF b = 0 THEN a ELSE GCD(b, a % b)

Frac(n, d) == LET g == GCD(n, d) IN [num |-> n \div g, den |-> d \div g]

FracAdd(x, y) == Frac(x.num * y.den + y.num * x.den, x.den * y.den)

\* x <= k for a fraction x and an integer k
FracLeq(x, k) == x.num <= k * x.den

RECURSIVE SeqSum(_)
SeqSum(s) == IF s = <<>> THEN 0 ELSE Head(s) + SeqSum(Tail(s))

RECURSIVE SeqMin(_)
SeqMin(s) == IF Len(s) = 1 THEN s[1] ELSE Min(s[1], SeqMin(Tail(s)))

RECURSIVE SeqMax(_)
SeqMax(s) == IF Len(s) = 1 THEN s[1]
             ELSE LET m == SeqMax(Tail(s)) IN IF s[1] >= m THEN s[1] ELSE m

\* sorted(word_counts): insertion after the last element that is not larger
RECURSIVE InsertInt(_, _)
InsertInt(s, x) ==
    IF s = <<>> THEN <<x>>
    ELSE IF Head(s) <= x THEN <<Head(s)>> \o InsertInt(Tail(s), x)
    ELSE <<x>> \o s

\* variant: the list is not sorted
unsorted(s) == s

\* sorted(word_counts), line 596
RECURSIVE sorted(_)
sorted(s) == IF s = <<>> THEN <<>>
             ELSE InsertInt(sorted(SubSeq(s, 1, Len(s) - 1)), s[Len(s)])

----------------------------------------------------------------------------
(* estimate_content_length *)

TopResults == 4

SanityFloor == 100

FallbackWords == 2000

\* variant: the floor itself passes (>= 100)
PassesSanityCheckAtFloor(actual_words) ==
    /\ actual_words # None
    /\ actual_words # 0
    /\ actual_words >= SanityFloor

\* `actual_words and actual_words > 100`
PassesSanityCheck(actual_words) ==
    /\ actual_words # None
    /\ actual_words # 0
    /\ actual_words > SanityFloor

\* what requests.get gives: an exception (connection error, timeout, invalid
\* url), an error status, or a page; main is the word count of the first
\* region a selector matches and body that of <body>, None where there is none
Failed(kind) == [kind |-> kind, main |-> None, body |-> None]

ErrorPage(words) == [kind |-> "http_error", main |-> None, body |-> words]

Page(words) == [kind |-> "html", main |-> words, body |-> words]

BodyOnly(words) == [kind |-> "html", main |-> None, body |-> words]

NoBody == [kind |-> "html", main |-> None, body |-> None]

\* variant: the status of the response is not checked
get_actual_word_count_any_status(response) ==
    IF response.kind \notin {"html", "http_error"} THEN None
    ELSE IF response.main # None THEN response.main
    ELSE IF response.body # None THEN response.body
    ELSE None

\* the body of the try block returns a count or None; every exception of
\* requests.get, raise_for_status and the parse ends in `return None`
get_actual_word_count(response) ==
    IF response.kind # "html" THEN None
    ELSE IF response.main # None THEN response.main
    ELSE IF response.body # None THEN response.body
    ELSE None

\* the call of line 573; a url that is no url makes requests.get raise
FetchAndCount(url) ==
    IF url \in DOMAIN fetch_outcome
    THEN get_actual_word_count(fetch_outcome[url])
    ELSE None

\* variant: a request that failed is sent once more
PageRequestsWithRetry(url, actual_words) ==
    IF actual_words = None THEN <<url, url>> ELSE <<url>>

\* the requests one call of get_actual_word_count sends: the single
\* requests.get of its try block, whatever comes of it
PageRequests(url, actual_words) == <<url>>

\* `title[:60] + "..." if len(title) > 60 else title`, titles kept by length
Truncated(title) == IF title > 60 THEN 63 ELSE title

SampleOf(actual_words) ==
    IF PassesSanityCheck(actual_words) THEN actual_words ELSE FallbackWords

\* floor(log2(s / 3)) for s >= 3
RECURSIVE Log2Third(_, _)
Log2Third(s, e) == IF 3 * (2 ^ (e + 1)) > s THEN e ELSE Log2Third(s, e + 1)

\* s / n is stored as the nearest double; for n = 3 the quotient x.33.. or
\* x.66.. is rounded down when the number of fraction bits (52 - e) is even
\* and s % 3 = 1, or odd and s % 3 = 2
QuotientRoundsDown(s, n) ==
    /\ n = 3
    /\ s % 3 # 0
    /\ LET f == 52 - Log2Third(s, 0)
       IN  \/ f % 2 = 0 /\ s % 3 = 1
           \/ f % 2 = 1 /\ s % 3 = 2

\* variant: factor 0.9 instead of 1.1
IntTimes09(s, n) == (9 * s) \div (10 * n)

\* int(avg_words * 1.1): 1.1 is stored above 1.1 and the exact product is an
\* integer only for an exact average, so the truncation is the exact floor
IntTimes11(s, n) == (11 * s) \div (10 * n)

\* int(avg_words * 1.2): 1.2 is stored below 1.2; when the exact product M is
\* an integer, the average was rounded down and M is not above the next power
\* of two, the double product is below M and int() gives M - 1
IntTimes12(s, n) ==
    LET M == (12 * s) \div (10 * n)
    IN  IF /\ (12 * s) % (10 * n) = 0
           /\ QuotientRoundsDown(s, n)
           /\ M <= 2 ^ (Log2Third(s, 0) + 1)
        THEN M - 1 ELSE M

\* variant: the default band is not the documented 3000-4000
DefaultProfileOtherBand ==
    [average |-> Frac(3000, 1), median |-> 3000, min |-> 1500, max |-> 5000,
     recommended_min |-> 3300, recommended_max |-> 3600,
     detailed_estimates |-> <<>>]

DefaultProfile ==
    [average |-> Frac(3000, 1), median |-> 3000, min |-> 1500, max |-> 5000,
     recommended_min |-> 3000, recommended_max |-> 4000,
     detailed_estimates |-> <<>>]

\* variant: the middle element of the list as it was filled
MedianUnsorted(counts) == counts[(Len(counts) \div 2) + 1]

\* lines 596-597: sorted_counts[len(sorted_counts) // 2]
Median(counts) == sorted(counts)[(Len(counts) \div 2) + 1]

\* lines 594-629: the statistics of the samples
Statistics(counts, details) ==
    IF counts # <<>>
    THEN LET total == SeqSum(counts)
             n == Len(counts)
         IN  [average |-> Frac(total, n),
              median |-> Median(counts),
              min |-> SeqMin(counts),
              max |-> SeqMax(counts),
              recommended_min |-> IntTimes11(total, n),
              recommended_max |-> IntTimes12(total, n),
              detailed_estimates |-> details]
    ELSE DefaultProfile

\* variant: no slice, every SERP entry is analyzed
AnalyzedAll == Len(serp_results)

\* serp_results.get("results", [])[:4]
AnalyzedCount == Min(TopResults, Len(serp_results))

\* one iteration of the loop of lines 564-590
EstimateFetch ==
    /\ pc = "estimate_loop"
    /\ Len(word_counts) < AnalyzedCount
    /\ LET result == serp_results[Len(word_counts) + 1]
           position == Get(result, "position", 999)
           title == Get(result, "title", 0)
           url == Get(result, "url", None)
           domain == Get(result, "domain", "")
           actual_words == FetchAndCount(url)
           word_count == SampleOf(actual_words)
       IN  IF title = None
           THEN \* len(None): TypeError, after the fetch and before the appends
                /\ fetched_urls' = fetched_urls \o PageRequests(url, actual_words)
                /\ pc' = "raised"
                /\ UNCHANGED <<word_counts, detailed_estimates>>
           ELSE /\ fetched_urls' = fetched_urls \o PageRequests(url, actual_words)
                /\ word_counts' = Append(word_counts, word_count)
                /\ detailed_estimates' = Append(detailed_estimates,
                       [position |-> position, domain |-> domain,
                        actual_words |-> word_count,
                        title |-> Truncated(title),
                        fetched |-> (actual_words # None)])
                /\ UNCHANGED pc
    /\ UNCHANGED <<inputs, crew, main, content_length_analysis, competitor_analysis, scan,
                   assessment>>

\* loop exit, lines 594-629, and the return to line 660
EstimateStats ==
    /\ pc = "estimate_loop"
    /\ Len(word_counts) = AnalyzedCount
    /\ content_length_analysis' = Statistics(word_counts, detailed_estimates)
    /\ pc' = "score_loop"
    /\ UNCHANGED <<inputs, crew, main, fetched_urls, word_counts, detailed_estimates,
                   competitor_analysis, scan, assessment>>

----------------------------------------------------------------------------
(* calculate_competition_assessment: the strength score of one competitor *)

Pos1Weight == 50

EtvWeight == 30

KeywordsWeight == 20

Pos1Ceiling == 100

EtvCeiling == 10000

KeywordsCeiling == 5000

ScoreCap == 100

\* variant: the ceiling is not applied when yours is 0
RatioWithoutCeiling(comp, yours, ceiling) ==
    IF yours > 0 THEN Frac(comp, yours) ELSE Frac(comp, 1)

\* lines 686-700: competitor / yours when yours > 0, else competitor / ceiling
Ratio(comp, yours, ceiling) ==
    IF yours > 0 THEN Frac(comp, yours)
    ELSE IF comp > 0 THEN Frac(comp, ceiling) ELSE Frac(0, 1)

FracTimes(k, x) == Frac(k * x.num, x.den)

\* variant: each ratio is yours over the competitor's
WeightedSumOwnOverCompetitor(yours, metrics) ==
    LET pos_1_ratio == Ratio(yours.pos_1, metrics.pos_1, Pos1Ceiling)
        etv_ratio == Ratio(yours.etv, metrics.etv, EtvCeiling)
        keywords_ratio == Ratio(yours.keywords, metrics.keywords, KeywordsCeiling)
    IN  FracAdd(FracAdd(FracTimes(Pos1Weight, pos_1_ratio),
                        FracTimes(EtvWeight, etv_ratio)),
                FracTimes(KeywordsWeight, keywords_ratio))

\* lines 707-709: the weighted sum of the three ratios
WeightedSum(yours, metrics) ==
    LET pos_1_ratio == Ratio(metrics.pos_1, yours.pos_1, Pos1Ceiling)
        etv_ratio == Ratio(metrics.etv, yours.etv, EtvCeiling)
        keywords_ratio == Ratio(metrics.keywords, yours.keywords, KeywordsCeiling)
    IN  FracAdd(FracAdd(FracTimes(Pos1Weight, pos_1_ratio),
                        FracTimes(EtvWeight, etv_ratio)),
                FracTimes(KeywordsWeight, keywords_ratio))

\* variant: the min(100, ..) is missing
StrengthScoreUnclamped(yours, metrics) == WeightedSum(yours, metrics)

\* lines 706-710: the unrounded local strength_score
StrengthScore(yours, metrics) ==
    LET weighted == WeightedSum(yours, metrics)
    IN  IF FracLeq(weighted, ScoreCap) THEN weighted ELSE Frac(ScoreCap, 1)

WeakMax == 30

MediumMax == 60

StrongMax == 85

\* x < k for a fraction x and an integer k
FracLess(x, k) == x.num < k * x.den

\* variant: the thresholds belong to the upper band (< instead of <=)
BandOpenAtThreshold(score) ==
    IF FracLess(score, WeakMax) THEN 1
    ELSE IF FracLess(score, MediumMax) THEN 2
    ELSE IF FracLess(score, StrongMax) THEN 3
    ELSE 4

\* lines 713-720 and 740-751: the band of a score
Band(score) ==
    IF FracLeq(score, WeakMax) THEN 1
    ELSE IF FracLeq(score, MediumMax) THEN 2
    ELSE IF FracLeq(score, StrongMax) THEN 3
    ELSE 4

DifficultyLabels ==
    <<"WEAK - Easy to outrank", "MEDIUM - Moderate effort needed",
      "STRONG - Significant effort required", "DOMINANT - Very difficult to outrank">>

Difficulty(score) == DifficultyLabels[Band(score)]

\* round(x, 1) in tenths; both neighbours on a decimal tie
Round1(x) ==
    LET q == (10 * x.num) \div x.den
        r == (10 * x.num) % x.den
    IN  IF 2 * r < x.den THEN {q}
        ELSE IF 2 * r > x.den THEN {q + 1}
        ELSE {q, q + 1}

\* variant: keywords is read under the provider's name for it, count
ExtractedByProviderKey(metrics) ==
    [pos_1 |-> Get(metrics, "pos_1", 0), etv |-> Get(metrics, "etv", 0),
     keywords |-> Get(metrics, "count", 0)]

\* lines 663-665 and 677-679: dict.get(.., 0) of the three metrics
Extracted(metrics) ==
    [pos_1 |-> Get(metrics, "pos_1", 0), etv |-> Get(metrics, "etv", 0),
     keywords |-> Get(metrics, "keywords", 0)]

HasNull(metrics) ==
    metrics.pos_1 = None \/ metrics.etv = None \/ metrics.keywords = None

\* an empty dict
EmptyMetrics == <<>>

\* variant: every entry that names a domain is scored
IsCompetitorAny(domain) ==
    domain # ""

\* `domain and domain in competitor_metrics_dict`; a null domain and an empty
\* one are both falsy and both written ""
IsCompetitor(domain) ==
    /\ domain # ""
    /\ domain \in DOMAIN competitor_metrics_dict

\* one iteration of the loop of lines 670-730, with the labels of the variant
ScoreCompetitorWith(labels) ==
    /\ pc = "score_loop"
    /\ scan <= Len(serp_results)
    /\ LET result == serp_results[scan]
           domain == Get(result, "domain", "")
           position == Get(result, "position", 999)
           yours == Extracted(your_domain_metrics)
       IN  IF IsCompetitor(domain)
           THEN LET \* competitor_metrics_dict[domain]: the guard found the key
                    metrics == Extracted(Get(competitor_metrics_dict, domain, EmptyMetrics))
                    strength_score == StrengthScore(yours, metrics)
                IN  IF HasNull(yours) \/ HasNull(metrics)
                    THEN \* None > 0: TypeError at the first comparison that meets it
                         /\ pc' = "raised"
                         /\ UNCHANGED <<competitor_analysis, scan>>
                    ELSE /\ \E rounded \in Round1(strength_score) :
                              competitor_analysis' = Append(competitor_analysis,
                                  [domain |-> domain, position |-> position,
                                   pos_1 |-> metrics.pos_1, etv |-> metrics.etv,
                                   keywords |-> metrics.keywords,
                                   strength_score |-> rounded,
                                   difficulty |-> labels[Band(strength_score)]])
                         /\ scan' = scan + 1
                         /\ UNCHANGED pc
           ELSE /\ scan' = scan + 1
                /\ UNCHANGED <<competitor_analysis, pc>>
    /\ UNCHANGED <<inputs, crew, main, fetched_urls, word_counts, detailed_estimates,
                   content_length_analysis, assessment>>

ScoreCompetitor == ScoreCompetitorWith(DifficultyLabels)

----------------------------------------------------------------------------
(* calculate_competition_assessment: sort, overall score, verdict *)

\* variant: an equal score goes before the earlier record (not stable)
RECURSIVE InsertBeforeEqual(_, _)
InsertBeforeEqual(s, c) ==
    IF s = <<>> THEN <<c>>
    ELSE IF Head(s).strength_score < c.strength_score
         THEN <<Head(s)>> \o InsertBeforeEqual(Tail(s), c)
    ELSE <<c>> \o s

\* list.sort(key=strength_score): stable, ascending
RECURSIVE InsertByStrength(_, _)
InsertByStrength(s, c) ==
    IF s = <<>> THEN <<c>>
    ELSE IF Head(s).strength_score <= c.strength_score
         THEN <<Head(s)>> \o InsertByStrength(Tail(s), c)
    ELSE <<c>> \o s

\* variant: the list stays in the order in which it was filled
SortedAsFilled(s) == s

\* line 733
RECURSIVE SortByStrength(_)
SortByStrength(s) ==
    IF s = <<>> THEN <<>>
    ELSE InsertByStrength(SortByStrength(SubSeq(s, 1, Len(s) - 1)), s[Len(s)])

TopCount == 5

\* variant: the five strongest records (the end of the sorted list)
Top5Strongest(analysis) ==
    IF Len(analysis) >= TopCount
    THEN SubSeq(analysis, Len(analysis) - TopCount + 1, Len(analysis)) ELSE analysis

\* line 736
Top5(analysis) ==
    IF Len(analysis) >= TopCount THEN SubSeq(analysis, 1, TopCount) ELSE analysis

RECURSIVE SumStrength(_)
SumStrength(s) == IF s = <<>> THEN 0 ELSE Head(s).strength_score + SumStrength(Tail(s))

\* line 737: the unrounded overall_score
OverallScore(top_5) ==
    IF top_5 # <<>> THEN Frac(SumStrength(top_5), 10 * Len(top_5)) ELSE Frac(0, 1)

Verdicts ==
    <<"LOW COMPETITION - Excellent opportunity",
      "MEDIUM COMPETITION - Good opportunity with quality content",
      "HIGH COMPETITION - Requires exceptional content and link building",
      "VERY HIGH COMPETITION - Long-term strategy needed">>

\* variant: the two middle targets exchanged
TargetPositionsSwapped == <<"1-3", "5-10", "3-5", "10-20 initially">>

TargetPositions == <<"1-3", "3-5", "5-10", "10-20 initially">>

\* lines 756-773
CannedRecommendations ==
    << <<"Focus on content quality - competitors are weak",
         "Quick wins possible with on-page optimization",
         "Build topical authority in this niche">>,
       <<"Create significantly better content than current top 10",
         "Build high-quality backlinks from relevant sites",
         "Focus on user experience and engagement metrics">>,
       <<"Develop comprehensive pillar content",
         "Aggressive link building campaign required",
         "Build brand authority and E-E-A-T signals",
         "Consider targeting easier related keywords first">>,
       <<"Long-term strategy needed (6-12+ months)",
         "Build domain authority through easier wins first",
         "Focus on long-tail variations initially",
         "Invest heavily in content quality and backlinks">> >>

EasyMax == 40

MaxTargets == 3

\* line 776
EasiestTargets(analysis) ==
    SelectSeq(analysis, LAMBDA c : c.strength_score <= 10 * EasyMax)

\* lines 754-778: canned lines as [text, domains = <<>>], then the target line
Recommendations(band, analysis) ==
    LET canned == CannedRecommendations[band]
        easiest_targets == EasiestTargets(analysis)
        named == SubSeq(easiest_targets, 1, Min(MaxTargets, Len(easiest_targets)))
    IN  [i \in 1..Len(canned) |-> [text |-> canned[i], domains |-> <<>>]]
        \o (IF easiest_targets # <<>>
            THEN <<[text |-> "Target to outrank first",
                    domains |-> [i \in 1..Len(named) |-> named[i].domain]]>>
            ELSE <<>>)

\* loop exit and lines 732-796, with the texts of the variant: its verdicts
\* and, for each band, its recommendations on the sorted list
AggregateWith(verdicts, advice) ==
    /\ pc = "score_loop"
    /\ scan > Len(serp_results)
    /\ LET sorted_analysis == SortByStrength(competitor_analysis)
           overall_score == OverallScore(Top5(sorted_analysis))
           band == Band(overall_score)
       IN  /\ competitor_analysis' = sorted_analysis
           /\ \E rounded \in Round1(overall_score) :
                 assessment' =
                     [your_metrics |-> Extracted(your_domain_metrics),
                      competitor_analysis |-> sorted_analysis,
                      overall_score |-> rounded,
                      verdict |-> verdicts[band],
                      target_position |-> TargetPositions[band],
                      recommendations |-> advice[band],
                      content_length_analysis |-> content_length_analysis]
    /\ pc' = "done"
    /\ UNCHANGED <<inputs, crew, main, fetched_urls, word_counts, detailed_estimates,
                   content_length_analysis, scan>>

Aggregate ==
    AggregateWith(Verdicts,
        [band \in 1..4 |-> Recommendations(band, SortByStrength(competitor_analysis))])

----------------------------------------------------------------------------
(* Inputs of the estimator alone *)

FetchResults == {Failed("timeout"), Page(50), Page(100), Page(101), Page(1800),
                 Page(2200), Page(3000)}

SerpOf(domains) ==
    [i \in 1..Len(domains) |-> [domain |-> domains[i], position |-> i, url |-> i]]

NoMetrics == [pos_1 |-> 0, etv |-> 0, keywords |-> 0]

EmptyDict == [d \in {} |-> NoMetrics]

NotInMain == [none |-> TRUE]

\* concurrent_fetch_sources is not called
NotInCrew ==
    /\ urls = <<>>
    /\ max_workers = 8
    /\ future_map = <<>>
    /\ results = <<>>

InitLocals ==
    /\ provider = NotInMain
    /\ main = NotInMain
    /\ pc = "estimate_loop"
    /\ fetched_urls = <<>>
    /\ word_counts = <<>>
    /\ detailed_estimates = <<>>
    /\ content_length_analysis = NoResult
    /\ competitor_analysis = <<>>
    /\ scan = 1
    /\ assessment = NoResult
    /\ NotInCrew

InitEstimate ==
    /\ your_domain_metrics = NoMetrics
    /\ competitor_metrics_dict = EmptyDict
    /\ \E n \in 0..MaxPages :
          /\ serp_results = SerpOf([i \in 1..n |-> "a.com"])
          /\ fetch_outcome \in [1..n -> FetchResults]
    /\ InitLocals

NextEstimate == EstimateFetch \/ EstimateStats

SpecEstimate == InitEstimate /\ [][NextEstimate]_vars

----------------------------------------------------------------------------
(* Inputs of the estimator over every outcome of the page request *)

MaxFetch == 4

AllResponses ==
    {Failed("connection_error"), Failed("timeout"), Failed("parse_error"),
     ErrorPage(120), ErrorPage(1800), NoBody, BodyOnly(0), BodyOnly(150), Page(0),
     Page(1800)}

InitFetch ==
    /\ your_domain_metrics = NoMetrics
    /\ competitor_metrics_dict = EmptyDict
    /\ \E n \in 0..MaxFetch :
          /\ serp_results = SerpOf([i \in 1..n |-> "a.com"])
          /\ fetch_outcome \in [1..n -> AllResponses]
    /\ InitLocals

SpecFetch == InitFetch /\ [][NextEstimate]_vars

----------------------------------------------------------------------------
(* The estimator with its page fetches run in parallel: each of the first    *)
(* four entries is fetched once and the samples are appended in the order    *)
(* in which the fetches complete                                              *)

MaxParallel == 4

ParallelResults == {Failed("timeout"), Page(100), Page(1800), Page(2200), Page(3000)}

Completed == {fetched_urls[i] : i \in 1..Len(fetched_urls)}

\* the fetch of one entry not yet fetched completes
EstimateFetchAnyOrder ==
    /\ pc = "estimate_loop"
    /\ \E k \in (1..AnalyzedCount) \ Completed :
          LET result == serp_results[k]
              actual_words == FetchAndCount(result.url)
              word_count == SampleOf(actual_words)
          IN  /\ fetched_urls' = Append(fetched_urls, result.url)
              /\ word_counts' = Append(word_counts, word_count)
              /\ detailed_estimates' = Append(detailed_estimates,
                     [position |-> result.position, domain |-> result.domain,
                      actual_words |-> word_count,
                      title |-> Truncated(Get(result, "title", 0)),
                      fetched |-> (actual_words # None)])
    /\ UNCHANGED <<inputs, crew, main, pc, content_length_analysis, competitor_analysis, scan,
                   assessment>>

InitParallel ==
    /\ your_domain_metrics = NoMetrics
    /\ competitor_metrics_dict = EmptyDict
    /\ \E n \in 0..MaxParallel :
          /\ serp_results = SerpOf([i \in 1..n |-> "a.com"])
          /\ fetch_outcome \in [1..n -> ParallelResults]
    /\ InitLocals

NextParallel == EstimateFetchAnyOrder \/ EstimateStats

SpecParallel == InitParallel /\ [][NextParallel]_vars

----------------------------------------------------------------------------
(* Inputs of the whole assessment *)

M(p, e, k) == [pos_1 |-> p, etv |-> e, keywords |-> k]

YourMetricsSet == {M(0, 0, 0), M(200, 0, 0), M(50, 20000, 3000)}

AuthorityDicts ==
    { [d \in {"a.com", "b.com", "c.com"} |->
          IF d = "a.com" THEN M(50, 20000, 3000)
          ELSE IF d = "b.com" THEN M(60, 0, 0) ELSE M(60, 0, 1)],
      [d \in {"a.com", "b.com", "c.com"} |->
          IF d = "a.com" THEN M(120, 0, 0)
          ELSE IF d = "b.com" THEN M(170, 0, 0) ELSE M(60, 0, 25)],
      [d \in {"a.com", "b.com"} |->
          IF d = "a.com" THEN M(300, 0, 0) ELSE M(0, 0, 0)],
      [d \in {"a.com", "b.com", "c.com"} |->
          IF d = "a.com" THEN M(120, 0, 1)
          ELSE IF d = "b.com" THEN M(170, 0, 1) ELSE M(1, 50, 0)],
      [d \in {"b.com", "c.com"} |->
          IF d = "b.com" THEN M(60, 0, 0) ELSE M(60, 0, 25)] }

SerpDomains == {"a.com", "b.com", "c.com"}

\* what the page of each site gives when it is fetched
SiteWords(domain) ==
    IF domain = "a.com" THEN Page(1800)
    ELSE IF domain = "b.com" THEN Failed("timeout") ELSE Page(100)

Init ==
    /\ your_domain_metrics \in YourMetricsSet
    /\ competitor_metrics_dict \in AuthorityDicts
    /\ \E n \in 0..MaxSerp : \E domains \in [1..n -> SerpDomains] :
          /\ serp_results = SerpOf(domains)
          /\ fetch_outcome = [i \in 1..n |-> SiteWords(domains[i])]
    /\ InitLocals

Next == EstimateFetch \/ EstimateStats \/ ScoreCompetitor \/ Aggregate

Spec == Init /\ [][Next]_vars

----------------------------------------------------------------------------
(* Inputs of the assessment with fields missing or null.  A missing key is   *)
(* a key outside the DOMAIN of the record, a null value is None; titles are  *)
(* kept by their length; every url that is one is url 1                      *)

MaxAnySerp == 3

AnyOwnMetrics ==
    {EmptyMetrics, M(0, 0, 0), [pos_1 |-> 100], M(50, None, 3000)}

AnyDicts ==
    { EmptyDict,
      [d \in {"a.com"} |-> EmptyMetrics],
      [d \in {"a.com", "b.com"} |-> IF d = "a.com" THEN M(60, 0, 1) ELSE [etv |-> 500]],
      [d \in {"a.com", "b.com"} |-> IF d = "a.com" THEN M(60, 0, None) ELSE M(1, 1, 1)] }

AnyEntries ==
    { [domain |-> "a.com", position |-> 1, url |-> 1, title |-> 70],
      [domain |-> "b.com", position |-> 2, url |-> 1, title |-> 60],
      [position |-> 3, url |-> 1],
      [domain |-> "a.com"],
      [domain |-> "", position |-> None, url |-> None, title |-> 0],
      [domain |-> "b.com", position |-> 4, url |-> 1, title |-> None] }

InitAnyInput ==
    /\ your_domain_metrics \in AnyOwnMetrics
    /\ competitor_metrics_dict \in AnyDicts
    /\ \E n \in 0..MaxAnySerp : serp_results \in [1..n -> AnyEntries]
    /\ fetch_outcome = <<Page(1800)>>
    /\ InitLocals

SpecAnyInput == InitAnyInput /\ [][Next]_vars

----------------------------------------------------------------------------
(* main() of the simple pipeline.  provider holds what the services answer   *)
(* in this run:                                                              *)
(*   keyword    "ok" or "error" (get_keyword_metrics returns an error dict)  *)
(*   serp       [kind, items]: kind "ok" with the organic items, or the      *)
(*              failure of the SERP request                                  *)
(*   authority  for each domain asked, the kind of the answer:               *)
(*              "ok", "no_items" (the domain is not known), "task_error",    *)
(*              "request_exception", "no_tasks" (a body without tasks),      *)
(*              "bad_shape" (a body whose parts are not the objects the code *)
(*              indexes), "null_metric" (a record whose etv is null)         *)
(*   own        the organic metrics the provider holds for the own domain    *)
(*   llm, csv   "ok"/"error" and "found"/"missing"                           *)

your_domain == "io.net"

\* lines 148-149 on the names of the model: scheme and www. removed, path cut
clean(domain) ==
    IF domain = "www.a.com" THEN "a.com" ELSE domain

\* the organic metrics the provider holds for a domain
AuthorityData(domain) ==
    IF domain = "a.com" THEN M(120, 0, 0)
    ELSE IF domain = "b.com" THEN M(60, 0, 25)
    ELSE provider.own

Malformed == {"no_tasks", "bad_shape", "null_metric"}

\* get_domain_metrics: one request per cleaned domain.  An answer without
\* tasks, with a task error, without items, or a failed request leaves the
\* domain out; indexing an answer of another shape, or formatting a null
\* metric in the print of line 218, raises inside the outer try, whose
\* handler returns {} for the whole call
get_domain_metrics(domains, authority) ==
    LET asked == {clean(d) : d \in domains}
        stored == {d \in asked : authority[d] = "ok"}
    IN  IF \E d \in asked : authority[d] \in {"bad_shape", "null_metric"}
        THEN EmptyDict
        ELSE [d \in stored |-> AuthorityData(d)]

\* get_serp_results: the error dict, or the results with the domain metrics
get_serp_results(answers) ==
    IF answers.serp.kind # "ok"
    THEN [error |-> answers.serp.kind]
    ELSE LET items == answers.serp.items
             formatted_results ==
                 [i \in 1..Len(items) |->
                     [position |-> i, title |-> Get(items[i], "title", None),
                      url |-> i, domain |-> items[i].domain]]
             all_domains == {items[i].domain : i \in 1..Len(items)} \cup {your_domain}
             domain_metrics == get_domain_metrics(all_domains, answers.authority)
         IN  [results |-> formatted_results,
              domain_metrics |-> domain_metrics,
              your_domain_metrics |-> Get(domain_metrics, your_domain, EmptyMetrics)]

MaxItems == 2

\* organic items of the SERP answer: one is a page of the own domain and
\* the last one carries no title
ItemShapes ==
    { [domain |-> "a.com", title |-> 40], [domain |-> "www.a.com", title |-> 70],
      [domain |-> "b.com", title |-> 40], [domain |-> your_domain, title |-> 40],
      [domain |-> "b.com"] }

SerpAnswers ==
    { [kind |-> k, items |-> <<>>] : k \in {"request_failed", "no_tasks", "no_results"} }
    \cup UNION { { [kind |-> "ok", items |-> items] : items \in [1..n -> ItemShapes] } :
                 n \in 0..MaxItems }

AuthorityAnswers ==
    { [d \in {"a.com", "b.com", your_domain} |->
          IF d = "a.com" THEN ka ELSE IF d = "b.com" THEN kb ELSE ko] :
        ka \in {"ok", "no_items", "task_error", "request_exception", "no_tasks",
                "bad_shape", "null_metric"},
        kb \in {"ok", "request_exception"},
        ko \in {"ok", "no_items"} }

OwnAuthorityData == {M(200, 0, 0), M(50, 20000, 3000)}

Unset == [unset |-> TRUE]

InitMain ==
    /\ provider \in [keyword : {"ok", "error"}, serp : SerpAnswers,
                      authority : AuthorityAnswers, own : OwnAuthorityData,
                      llm : {"ok", "error"},
                      csv : {"found", "missing"}]
    /\ main = [keyword_metrics |-> "unset", serp_results |-> Unset,
               audience_goal_recommendation |-> "unset", internal_links |-> "unset",
               content_brief |-> "unset", saved |-> FALSE]
    /\ your_domain_metrics = EmptyMetrics
    /\ competitor_metrics_dict = EmptyDict
    /\ serp_results = <<>>
    /\ fetch_outcome = [i \in 1..Len(provider.serp.items) |->
                           SiteWords(provider.serp.items[i].domain)]
    /\ pc = "step1"
    /\ fetched_urls = <<>>
    /\ word_counts = <<>>
    /\ detailed_estimates = <<>>
    /\ content_length_analysis = NoResult
    /\ competitor_analysis = <<>>
    /\ scan = 1
    /\ assessment = NoResult
    /\ NotInCrew

locals == <<fetched_urls, word_counts, detailed_estimates, content_length_analysis,
            competitor_analysis, scan, assessment>>

\* Step 1, line 1245
MainKeywordMetrics ==
    /\ pc = "step1"
    /\ main' = [main EXCEPT !.keyword_metrics =
                    IF provider.keyword = "ok" THEN "metrics" ELSE "error"]
    /\ pc' = "step2"
    /\ UNCHANGED <<inputs, crew, locals>>

\* Step 2, line 1252
MainSerpResults ==
    /\ pc = "step2"
    /\ main' = [main EXCEPT !.serp_results = get_serp_results(provider)]
    /\ pc' = "step3"
    /\ UNCHANGED <<inputs, crew, locals>>

\* Step 3, lines 1259-1265: defaults without results or when the LLM call fails
MainAudience ==
    /\ pc = "step3"
    /\ main' = [main EXCEPT !.audience_goal_recommendation =
                    IF Get(main.serp_results, "results", <<>>) = <<>>
                       \/ provider.llm = "error"
                    THEN "defaults" ELSE "recommended"]
    /\ pc' = "step4"
    /\ UNCHANGED <<inputs, crew, locals>>

\* Step 4, lines 1272-1279: the call of calculate_competition_assessment
MainAssessmentCall ==
    /\ pc = "step4"
    /\ your_domain_metrics' = Get(main.serp_results, "your_domain_metrics", EmptyMetrics)
    /\ competitor_metrics_dict' = Get(main.serp_results, "domain_metrics", EmptyDict)
    /\ serp_results' = Get(main.serp_results, "results", <<>>)
    /\ pc' = "estimate_loop"
    /\ UNCHANGED <<fetch_outcome, provider, main, locals, crew>>

\* Step 5, lines 1287-1302, after the assessment has returned
MainInternalLinks ==
    /\ pc = "done"
    /\ main # NotInMain
    /\ main' = [main EXCEPT !.internal_links =
                    IF provider.csv = "found" /\ provider.llm = "ok"
                    THEN "links" ELSE "none"]
    /\ pc' = "step6"
    /\ UNCHANGED <<inputs, crew, locals>>

\* Step 6, line 1309: generate_content_brief returns the brief or an error text
MainContentBrief ==
    /\ pc = "step6"
    /\ main' = [main EXCEPT !.content_brief =
                    IF provider.llm = "ok" THEN "brief" ELSE "error text"]
    /\ pc' = "step7"
    /\ UNCHANGED <<inputs, crew, locals>>

\* Step 7, lines 1320-1393: the brief is written to the markdown file
MainSave ==
    /\ pc = "step7"
    /\ main' = [main EXCEPT !.saved = TRUE]
    /\ pc' = "main_done"
    /\ UNCHANGED <<inputs, crew, locals>>

NextMain ==
    \/ MainKeywordMetrics \/ MainSerpResults \/ MainAudience \/ MainAssessmentCall
    \/ EstimateFetch \/ EstimateStats \/ ScoreCompetitor \/ Aggregate
    \/ MainInternalLinks \/ MainContentBrief \/ MainSave

SpecMain == InitMain /\ [][NextMain]_vars

----------------------------------------------------------------------------
(* The web-UI variant (Backups/streamlit_app_backup.py): the same scoring    *)
(* and aggregation with its own labels and its own recommendations           *)

StreamlitDifficultyLabels == <<"WEAK", "MEDIUM", "STRONG", "DOMINANT">>

StreamlitVerdicts ==
    <<"LOW COMPETITION", "MEDIUM COMPETITION", "HIGH COMPETITION",
      "VERY HIGH COMPETITION">>

StreamlitCanned ==
    << <<"Focus on content quality", "Quick wins possible", "Build topical authority">>,
       <<"Create better content than top 10", "Build quality backlinks", "Focus on UX">>,
       <<"Develop pillar content", "Aggressive link building", "Build brand authority">>,
       <<"Long-term strategy (6-12+ months)", "Build authority through easier wins first",
         "Focus on long-tail initially">> >>

\* the list is the canned one; the variant has no line of easiest targets
StreamlitRecommendations(band) ==
    [i \in 1..Len(StreamlitCanned[band]) |->
        [text |-> StreamlitCanned[band][i], domains |-> <<>>]]

ScoreCompetitorStreamlit == ScoreCompetitorWith(StreamlitDifficultyLabels)

AggregateStreamlit ==
    AggregateWith(StreamlitVerdicts, [band \in 1..4 |-> StreamlitRecommendations(band)])

NextStreamlit ==
    EstimateFetch \/ EstimateStats \/ ScoreCompetitorStreamlit \/ AggregateStreamlit

SpecStreamlit == Init /\ [][NextStreamlit]_vars

----------------------------------------------------------------------------
(* The web-UI variant as a function of its arguments and of what the pages   *)
(* give, for the comparison with a run of the simple variant                 *)

\* variant: the ceiling of the dead branch of the simple variant (1000)
StreamlitRatioOtherCeiling(comp, yours, ceiling) ==
    IF yours > 0 THEN Frac(comp, yours)
    ELSE IF comp > 0 THEN Frac(comp, 1000) ELSE Frac(0, 1)

\* lines 461-474 of the variant
StreamlitRatio(comp, yours, ceiling) ==
    IF yours > 0 THEN Frac(comp, yours)
    ELSE IF comp > 0 THEN Frac(comp, ceiling) ELSE Frac(0, 1)

\* line 476 of the variant
StreamlitStrengthScore(yours, metrics) ==
    LET pos_1_ratio == StreamlitRatio(metrics.pos_1, yours.pos_1, Pos1Ceiling)
        etv_ratio == StreamlitRatio(metrics.etv, yours.etv, EtvCeiling)
        keywords_ratio == StreamlitRatio(metrics.keywords, yours.keywords, KeywordsCeiling)
        weighted == FracAdd(FracAdd(FracTimes(Pos1Weight, pos_1_ratio),
                                    FracTimes(EtvWeight, etv_ratio)),
                            FracTimes(KeywordsWeight, keywords_ratio))
    IN  IF FracLeq(weighted, ScoreCap) THEN weighted ELSE Frac(ScoreCap, 1)

\* round(x, 1) is a function of the double x: a number the process has rounded
\* before (seen, to tenths) is rounded to the same tenths again
RoundAgain(x, seen, tenths) ==
    IF x = seen THEN tenths ELSE CHOOSE t \in Round1(x) : TRUE

\* lines 324-378 of the variant, the same text as lines 560-629 of the simple one
streamlit_estimate_content_length ==
    LET n == Min(TopResults, Len(serp_results))
        actual_words == [i \in 1..n |-> FetchAndCount(Get(serp_results[i], "url", None))]
        word_counts_ == [i \in 1..n |-> SampleOf(actual_words[i])]
        detailed_estimates_ ==
            [i \in 1..n |->
                [position |-> Get(serp_results[i], "position", 999),
                 domain |-> Get(serp_results[i], "domain", ""),
                 actual_words |-> word_counts_[i],
                 title |-> Truncated(Get(serp_results[i], "title", 0)),
                 fetched |-> (actual_words[i] # None)]]
    IN  Statistics(word_counts_, detailed_estimates_)

\* lines 450-494 of the variant: the records of the loop in SERP order; rounded
\* holds, for each SERP position, the unrounded score and the tenths that the
\* same process gave it before
StreamlitScored(rounded) ==
    LET yours == Extracted(your_domain_metrics)
        scored == SelectSeq(serp_results,
                            LAMBDA result : IsCompetitor(Get(result, "domain", "")))
    IN  [i \in 1..Len(scored) |->
            LET domain == scored[i].domain
                position == Get(scored[i], "position", 999)
                metrics == Extracted(competitor_metrics_dict[domain])
                strength_score == StreamlitStrengthScore(yours, metrics)
            IN  [domain |-> domain, position |-> position,
                 pos_1 |-> metrics.pos_1, etv |-> metrics.etv,
                 keywords |-> metrics.keywords,
                 strength_score |-> RoundAgain(strength_score, rounded[position].seen,
                                               rounded[position].tenths),
                 difficulty |-> StreamlitDifficultyLabels[Band(strength_score)]]]

\* lines 439-532 of the variant; overall is the mean the process rounded before
streamlit_calculate_competition_assessment(rounded, overall) ==
    LET competitor_analysis_ == SortByStrength(StreamlitScored(rounded))
        overall_score == OverallScore(Top5(competitor_analysis_))
        band == Band(overall_score)
    IN  [your_metrics |-> Extracted(your_domain_metrics),
         competitor_analysis |-> competitor_analysis_,
         overall_score |-> RoundAgain(overall_score, overall.seen, overall.tenths),
         verdict |-> StreamlitVerdicts[band],
         target_position |-> TargetPositions[band],
         recommendations |-> StreamlitRecommendations(band),
         content_length_analysis |-> streamlit_estimate_content_length]

----------------------------------------------------------------------------
(* concurrent_fetch_sources (seo_crew.py): the main thread submits one       *)
(* future per url and then collects the futures as they complete, while the  *)
(* threads of the pool run fetch_url_title_and_snippet.  A future is         *)
(* "pending" in the queue of the pool, "running" in a thread, "finished"     *)
(* with its result, and "yielded" once as_completed has handed it out        *)

MaxUrls == 3

CrewUrls == {"https://a.com/x", "https://b.com/y"}

PoolSizes == {1, 2, 8}

\* what the page request of one fetch gives
CrewResponses == {"titled", "untitled", "failed"}

\* lines 334-350: (title, snippet), the url as title without a <title>
\* element, and (url, "") after any exception
fetch_url_title_and_snippet(url, response) ==
    IF response = "titled" THEN [title |-> "Page title", snippet |-> "text"]
    ELSE IF response = "untitled" THEN [title |-> url, snippet |-> "text"]
    ELSE [title |-> url, snippet |-> ""]

InitCrew ==
    /\ your_domain_metrics = NoMetrics
    /\ competitor_metrics_dict = EmptyDict
    /\ serp_results = <<>>
    /\ fetch_outcome = <<>>
    /\ provider = NotInMain
    /\ main = NotInMain
    /\ pc = "submit"
    /\ fetched_urls = <<>>
    /\ word_counts = <<>>
    /\ detailed_estimates = <<>>
    /\ content_length_analysis = NoResult
    /\ competitor_analysis = <<>>
    /\ scan = 1
    /\ assessment = NoResult
    /\ \E n \in 0..MaxUrls : urls \in [1..n -> CrewUrls]
    /\ max_workers \in PoolSizes
    /\ future_map = <<>>
    /\ results = <<>>

assessment_vars ==
    <<inputs, main, fetched_urls, word_counts, detailed_estimates, content_length_analysis,
      competitor_analysis, scan, assessment>>

\* line 356, one element of the comprehension: ex.submit returns a new
\* future, which becomes a new key of future_map
Submit ==
    /\ pc = "submit"
    /\ Len(future_map) < Len(urls)
    /\ future_map' = Append(future_map,
           [url |-> urls[Len(future_map) + 1], state |-> "pending",
            title |-> "", snippet |-> ""])
    /\ UNCHANGED <<assessment_vars, pc, urls, max_workers, results>>

\* line 357: the call of as_completed once every url is submitted
AsCompleted ==
    /\ pc = "submit"
    /\ Len(future_map) = Len(urls)
    /\ pc' = "as_completed"
    /\ UNCHANGED <<assessment_vars, crew>>

Running == {f \in 1..Len(future_map) : future_map[f].state = "running"}

Pending == {f \in 1..Len(future_map) : future_map[f].state = "pending"}

\* a thread of the pool takes the oldest future of the queue
WorkerStart ==
    /\ pc \in {"submit", "as_completed"}
    /\ Pending # {}
    /\ Cardinality(Running) < max_workers
    /\ LET f == CHOOSE f \in Pending : \A g \in Pending : f <= g
       IN  future_map' = [future_map EXCEPT ![f].state = "running"]
    /\ UNCHANGED <<assessment_vars, pc, urls, max_workers, results>>

\* a thread returns from fetch_url_title_and_snippet
WorkerFinish ==
    /\ pc \in {"submit", "as_completed"}
    /\ \E f \in Running : \E response \in CrewResponses :
          LET fetched == fetch_url_title_and_snippet(future_map[f].url, response)
          IN  future_map' = [future_map EXCEPT ![f].state = "finished",
                                               ![f].title = fetched.title,
                                               ![f].snippet = fetched.snippet]
    /\ UNCHANGED <<assessment_vars, pc, urls, max_workers, results>>

\* variant: a url that already has a record is not added again
CollectedOncePerUrl(list, record) ==
    IF \E i \in 1..Len(list) : list[i].url = record.url THEN list
    ELSE Append(list, record)

\* line 363
Collected(list, record) == Append(list, record)

\* one iteration of the loop of lines 357-363: as_completed yields a future
\* that has finished
Collect ==
    /\ pc = "as_completed"
    /\ \E fut \in 1..Len(future_map) :
          /\ future_map[fut].state = "finished"
          /\ LET url == future_map[fut].url
             IN  results' = Collected(results,
                     [title |-> future_map[fut].title, url |-> url,
                      snippet |-> future_map[fut].snippet])
          /\ future_map' = [future_map EXCEPT ![fut].state = "yielded"]
    /\ UNCHANGED <<assessment_vars, pc, urls, max_workers>>

\* line 364, after the last future
CrewReturn ==
    /\ pc = "as_completed"
    /\ \A fut \in 1..Len(future_map) : future_map[fut].state = "yielded"
    /\ pc' = "crew_done"
    /\ UNCHANGED <<assessment_vars, crew>>

NextCrew ==
    Submit \/ AsCompleted \/ WorkerStart \/ WorkerFinish \/ Collect \/ CrewReturn

SpecCrew == InitCrew /\ [][NextCrew]_vars

----------------------------------------------------------------------------
(* Properties *)

Abs(x) == IF x < 0 THEN 0 - x ELSE x

\* t (in tenths) is x rounded to one decimal
IsRounded1(t, x) == 2 * Abs(t * x.den - 10 * x.num) <= x.den

MetricsOf(r) == [pos_1 |-> r.pos_1, etv |-> r.etv, keywords |-> r.keywords]

\* the unrounded score the record r was built from
RawOf(r) == StrengthScore(your_domain_metrics, MetricsOf(r))

\* what get_actual_word_count returns for each url of this run
Returns == [u \in DOMAIN fetch_outcome |-> get_actual_word_count(fetch_outcome[u])]

Returned == pc = "done"

Estimated == content_length_analysis # NoResult

\* C1: with non-negative metrics on both sides, the strength score of every
\* competitor, unrounded and as stored in its record, lies in [0, 100].
C1_StrengthWithinRange ==
    /\ \A d \in DOMAIN competitor_metrics_dict :
          LET score == StrengthScore(your_domain_metrics, competitor_metrics_dict[d])
          IN  score.num >= 0 /\ score.num <= 100 * score.den
    /\ \A i \in 1..Len(competitor_analysis) :
          /\ competitor_analysis[i].strength_score >= 0
          /\ competitor_analysis[i].strength_score <= 1000

\* a competitor whose weighted sum is above 100 has been recorded with 100.0
C1_Witness ==
    \E i \in 1..Len(competitor_analysis) :
        LET w == WeightedSum(your_domain_metrics, MetricsOf(competitor_analysis[i]))
        IN  /\ w.num > 100 * w.den
            /\ competitor_analysis[i].strength_score = 1000

\* the position of a label in a tuple of four labels
IsBandOf(label, labels, x) ==
    /\ label = labels[1] <=> x.num <= 30 * x.den
    /\ label = labels[2] <=> (x.num > 30 * x.den /\ x.num <= 60 * x.den)
    /\ label = labels[3] <=> (x.num > 60 * x.den /\ x.num <= 85 * x.den)
    /\ label = labels[4] <=> x.num > 85 * x.den

\* C2: a score maps to WEAK/LOW iff it is <= 30, to MEDIUM iff in (30, 60],
\* to STRONG/HIGH iff in (60, 85] and to DOMINANT/VERY HIGH iff > 85, for the
\* difficulty of each competitor (from its unrounded score) and for the
\* verdict (from the unrounded mean).
C2_BandsClosedAtThreshold ==
    /\ \A i \in 1..Len(competitor_analysis) :
          IsBandOf(competitor_analysis[i].difficulty, DifficultyLabels,
                   RawOf(competitor_analysis[i]))
    /\ Returned =>
          IsBandOf(assessment.verdict, Verdicts,
                   OverallScore(Top5(assessment.competitor_analysis)))

\* a score of exactly 30 is WEAK, one just above 30 is MEDIUM and a mean of
\* exactly 30 is LOW, in one returned assessment
C2_Witness ==
    /\ Returned
    /\ \E i, j \in 1..Len(competitor_analysis) :
          LET x == RawOf(competitor_analysis[i])
              y == RawOf(competitor_analysis[j])
          IN  /\ x.num = 30 * x.den
              /\ competitor_analysis[i].difficulty = DifficultyLabels[1]
              /\ y.num > 30 * y.den
              /\ 10 * y.num < 301 * y.den
              /\ competitor_analysis[j].difficulty = DifficultyLabels[2]
    /\ LET m == OverallScore(Top5(assessment.competitor_analysis))
       IN  m.num = 30 * m.den /\ assessment.verdict = Verdicts[1]

\* the score of the claim: min(100, 50 * r1 + 30 * r2 + 20 * r3), each ratio
\* over your metric when it is positive and over the fixed ceiling otherwise
ClaimedRatio(comp, yours, ceiling) == Frac(comp, IF yours > 0 THEN yours ELSE ceiling)

ClaimedScore(r) ==
    LET w == FracAdd(FracAdd(
                 FracTimes(50, ClaimedRatio(r.pos_1, your_domain_metrics.pos_1, 100)),
                 FracTimes(30, ClaimedRatio(r.etv, your_domain_metrics.etv, 10000))),
                 FracTimes(20, ClaimedRatio(r.keywords, your_domain_metrics.keywords, 5000)))
    IN  IF w.num <= 100 * w.den THEN w ELSE Frac(100, 1)

IsScenario97(r) ==
    /\ your_domain_metrics = [pos_1 |-> 0, etv |-> 0, keywords |-> 0]
    /\ MetricsOf(r) = [pos_1 |-> 50, etv |-> 20000, keywords |-> 3000]

\* C3 as stated: the strength_score of every record is exactly
\* min(100, 50 * pos_1_ratio + 30 * etv_ratio + 20 * keywords_ratio).
C3_AsStated ==
    \A i \in 1..Len(competitor_analysis) :
        Frac(competitor_analysis[i].strength_score, 10) = ClaimedScore(competitor_analysis[i])

\* C3: the strength_score of every record is min(100, 50 * pos_1_ratio +
\* 30 * etv_ratio + 20 * keywords_ratio) rounded to one decimal; own metrics
\* all 0 and competitor {50, 20000, 3000} give 97.0 and DOMINANT.
C3_StrengthIsRoundedWeightedSum ==
    \A i \in 1..Len(competitor_analysis) :
        LET r == competitor_analysis[i]
        IN  /\ IsRounded1(r.strength_score, ClaimedScore(r))
            /\ IsScenario97(r) =>
                  r.strength_score = 970 /\ r.difficulty = DifficultyLabels[4]

\* the scenario record is there, next to a record whose score was rounded
C3_Witness ==
    \E i, j \in 1..Len(competitor_analysis) :
        /\ IsScenario97(competitor_analysis[i])
        /\ competitor_analysis[i].strength_score = 970
        /\ Frac(competitor_analysis[j].strength_score, 10) # ClaimedScore(competitor_analysis[j])

RECURSIVE SumOfFirst(_, _)
SumOfFirst(analysis, k) ==
    IF k = 0 THEN 0 ELSE analysis[k].strength_score + SumOfFirst(analysis, k - 1)

\* the mean of the first k stored scores
MeanOfFirst(analysis, k) == Frac(SumOfFirst(analysis, k), 10 * k)

FirstAreWeakest(analysis, k) ==
    \A i \in 1..k : \A j \in (k + 1)..Len(analysis) :
        analysis[i].strength_score <= analysis[j].strength_score

\* C4 as stated: the returned overall_score is exactly the mean of the
\* strength_score of the first min(5, N) records of the sorted list.
C4_AsStated ==
    (Returned /\ assessment.competitor_analysis # <<>>) =>
        LET a == assessment.competitor_analysis
        IN  Frac(assessment.overall_score, 10) = MeanOfFirst(a, Min(5, Len(a)))

\* C4: the returned overall_score is the mean of the strength_score of the
\* first min(5, N) records of the ascending-sorted list (the weakest ones),
\* rounded to one decimal, and 0 when N = 0.
C4_OverallIsRoundedMean ==
    Returned =>
        LET a == assessment.competitor_analysis
            k == Min(5, Len(a))
        IN  IF k = 0 THEN assessment.overall_score = 0
            ELSE /\ IsRounded1(assessment.overall_score, MeanOfFirst(a, k))
                 /\ FirstAreWeakest(a, k)

\* six records, the sixth stronger than the fifth, and a mean that is not a
\* multiple of 0.1
C4_Witness ==
    /\ Returned
    /\ Len(assessment.competitor_analysis) >= 6
    /\ LET a == assessment.competitor_analysis
       IN  /\ a[6].strength_score > a[5].strength_score
           /\ Frac(assessment.overall_score, 10) # MeanOfFirst(a, 5)

ScoredPositions ==
    {i \in 1..Len(serp_results) : serp_results[i].domain \in DOMAIN competitor_metrics_dict}

\* C5: the returned competitor_analysis holds each scored SERP entry once,
\* ascending by strength_score, and records with equal strength_score keep
\* their SERP order.
C5_SortedStable ==
    Returned =>
        LET a == assessment.competitor_analysis
        IN  /\ Len(a) = Cardinality(ScoredPositions)
            /\ {a[i].position : i \in 1..Len(a)} = ScoredPositions
            /\ \A i, j \in 1..Len(a) :
                  i < j => /\ a[i].strength_score <= a[j].strength_score
                           /\ a[i].strength_score = a[j].strength_score
                                 => a[i].position < a[j].position

\* the sort moved a record forward and kept two equal scores in SERP order
C5_Witness ==
    /\ Returned
    /\ \E i, j \in 1..Len(assessment.competitor_analysis) :
          LET a == assessment.competitor_analysis
          IN  /\ i < j
              /\ a[i].strength_score = a[j].strength_score
              /\ a[i].domain # a[j].domain
    /\ \E i, j \in 1..Len(assessment.competitor_analysis) :
          LET a == assessment.competitor_analysis
          IN  i < j /\ a[i].position > a[j].position

\* C6: the statistics come from one sample per entry among the first
\* min(4, N) SERP entries: these entries are fetched once each, in order, no
\* other entry is fetched, and the average is the sum of these samples over
\* min(4, N), whichever fetches fail.
C6_OneSamplePerTopEntry ==
    LET n == Min(4, Len(serp_results))
    IN  /\ Len(word_counts) <= n
        /\ fetched_urls = [i \in 1..Len(word_counts) |-> serp_results[i].url]
        /\ Estimated =>
              /\ Len(word_counts) = n
              /\ Len(content_length_analysis.detailed_estimates) = n
              /\ \A i \in 1..n :
                    /\ content_length_analysis.detailed_estimates[i].position = i
                    /\ content_length_analysis.detailed_estimates[i].actual_words = word_counts[i]
              /\ n > 0 =>
                    content_length_analysis.average.num * n
                        = SeqSum(word_counts) * content_length_analysis.average.den

\* five entries, the four fetches all fail, the profile is built on 4 samples
C6_Witness ==
    /\ Estimated
    /\ Len(serp_results) = 5
    /\ \A i \in 1..4 : Returns[i] = None
    /\ Returns[5] # None
    /\ Len(word_counts) = 4
    /\ content_length_analysis.average = Frac(2000, 1)

\* C7 as stated: the sample is 2000 when the fetch result is unavailable or
\* below 100, and the fetched count when it is 100 or more.
C7_AsStated ==
    \A i \in 1..Len(word_counts) :
        LET w == Returns[serp_results[i].url]
        IN  word_counts[i] = IF w = None \/ w < 100 THEN 2000 ELSE w

\* C7: the sample is 2000 when the fetch result is unavailable or at most
\* 100, and the fetched count when it is 101 or more.
C7_FallbackAtMostFloor ==
    \A i \in 1..Len(word_counts) :
        LET w == Returns[serp_results[i].url]
        IN  word_counts[i] = IF w = None \/ w <= 100 THEN 2000 ELSE w

\* a failed fetch, a page of 100 words and a page of 101 words were sampled
C7_Witness ==
    \E i, j, k \in 1..Len(word_counts) :
        /\ Returns[i] = None /\ word_counts[i] = 2000
        /\ Returns[j] = 100 /\ word_counts[j] = 2000
        /\ Returns[k] = 101 /\ word_counts[k] = 101

\* C8: for a non-empty SERP, recommended_min = floor(average * 1.10) and
\* recommended_max = floor(average * 1.20), average being the mean of the
\* samples; fetch results [1800, 2200, unavailable, 3000] give 2250, 2475
\* and 2700.
C8_RecommendedBand ==
    (Estimated /\ serp_results # <<>>) =>
        LET p == content_length_analysis
            total == SeqSum(word_counts)
            n == Len(word_counts)
        IN  /\ p.average.num * n = total * p.average.den
            /\ p.recommended_min = (total * 110) \div (n * 100)
            /\ p.recommended_max = (total * 120) \div (n * 100)
            /\ Returns = <<1800, 2200, None, 3000>> =>
                  /\ p.average = Frac(2250, 1)
                  /\ p.recommended_min = 2475
                  /\ p.recommended_max = 2700

\* C9: every returned profile, the default included, has
\* recommended_min <= recommended_max and recommended_min >= floor(average).
C9_BandOrdered ==
    Estimated =>
        LET p == content_length_analysis
        IN  /\ p.recommended_min <= p.recommended_max
            /\ p.recommended_min >= p.average.num \div p.average.den

\* a profile computed from three samples whose average is not an integer
C9_Witness ==
    /\ Estimated
    /\ Len(word_counts) = 3
    /\ content_length_analysis.average.den = 3
    /\ content_length_analysis.recommended_min < content_length_analysis.recommended_max

\* C10: with an empty SERP the assessment holds the default profile (average
\* 3000, min 1500, max 5000, band 3000-4000), no competitor and overall_score
\* 0, and no page has been fetched.
C10_EmptySerpDefaults ==
    (Returned /\ serp_results = <<>>) =>
        /\ assessment.content_length_analysis.average = Frac(3000, 1)
        /\ assessment.content_length_analysis.min = 1500
        /\ assessment.content_length_analysis.max = 5000
        /\ assessment.content_length_analysis.recommended_min = 3000
        /\ assessment.content_length_analysis.recommended_max = 4000
        /\ assessment.content_length_analysis.detailed_estimates = <<>>
        /\ assessment.competitor_analysis = <<>>
        /\ assessment.overall_score = 0
        /\ fetched_urls = <<>>

\* an assessment was returned for an empty SERP
C10_Witness ==
    /\ Returned
    /\ serp_results = <<>>
    /\ assessment.competitor_analysis = <<>>

\* C11: a SERP entry whose domain has no record in the authority dictionary
\* has no record in competitor_analysis, and every record of competitor_analysis
\* carries a domain that is a key of the dictionary (that of its SERP entry).
C11_OnlyKnownDomainsScored ==
    /\ \A i \in 1..Len(competitor_analysis) :
          LET r == competitor_analysis[i]
          IN  /\ r.domain \in DOMAIN competitor_metrics_dict
              /\ r.position \in 1..Len(serp_results)
              /\ serp_results[r.position].domain = r.domain
    /\ \A p \in 1..Len(serp_results) :
          serp_results[p].domain \notin DOMAIN competitor_metrics_dict =>
              \A i \in 1..Len(competitor_analysis) : competitor_analysis[i].position # p
    /\ Returned => assessment.competitor_analysis = competitor_analysis

C11_Witness ==
    /\ Returned
    /\ Len(assessment.competitor_analysis) >= 2
    /\ \E p, q \in 1..Len(serp_results) :
          /\ p < q
          /\ serp_results[p].domain \notin DOMAIN competitor_metrics_dict
          /\ serp_results[q].domain \in DOMAIN competitor_metrics_dict

\* the overall score of line 737, before the rounding of the return statement
UnroundedOverall == OverallScore(Top5(assessment.competitor_analysis))

IndexIn(labels, label) == CHOOSE b \in 1..4 : labels[b] = label

\* C12: target_position is "1-3" iff overall_score <= 30, "3-5" iff it is in
\* (30, 60], "5-10" iff in (60, 85] and "10-20 initially" iff above 85, and the
\* verdict returned with it is the one of the same band.
C12_TargetFollowsVerdictBand ==
    Returned =>
        /\ IsBandOf(assessment.target_position,
                    <<"1-3", "3-5", "5-10", "10-20 initially">>, UnroundedOverall)
        /\ assessment.verdict \in {Verdicts[b] : b \in 1..4}
        /\ IndexIn(Verdicts, assessment.verdict)
              = IndexIn(<<"1-3", "3-5", "5-10", "10-20 initially">>,
                        assessment.target_position)

C12_Witness ==
    /\ Returned
    /\ assessment.competitor_analysis # <<>>
    /\ UnroundedOverall.num = 60 * UnroundedOverall.den
    /\ assessment.target_position = "3-5"
    /\ assessment.verdict = Verdicts[2]

EasyRecords ==
    {i \in 1..Len(assessment.competitor_analysis) :
        assessment.competitor_analysis[i].strength_score <= 400}

IsTargetLine(recommendation) == recommendation.domains # <<>>

\* C13: the recommendations end with a line of easiest targets iff some scored
\* competitor has strength_score <= 40; the line names at most 3 domains, those
\* of the first records of the ascending list, each with strength_score <= 40;
\* no other line of the list names a target.
C13_EasiestTargetsLine ==
    Returned =>
        LET recs == assessment.recommendations
            a == assessment.competitor_analysis
            last == recs[Len(recs)]
        IN  /\ recs # <<>>
            /\ IsTargetLine(last) <=> EasyRecords # {}
            /\ \A i \in 1..(Len(recs) - 1) : ~IsTargetLine(recs[i])
            /\ IsTargetLine(last) =>
                  /\ Len(last.domains) = Min(3, Cardinality(EasyRecords))
                  /\ \A k \in 1..Len(last.domains) :
                        /\ last.domains[k] = a[k].domain
                        /\ a[k].strength_score <= 400

\* the simple variant returns the line, capped at 3 of 4 or more easy records
C13_SimpleVariantWitness ==
    /\ Returned
    /\ Cardinality(EasyRecords) >= 4
    /\ Len(assessment.recommendations[Len(assessment.recommendations)].domains) = 3

FullyPopulated ==
    /\ DOMAIN assessment = {"your_metrics", "competitor_analysis", "overall_score",
                            "verdict", "target_position", "recommendations",
                            "content_length_analysis"}
    /\ assessment.content_length_analysis # NoResult
    /\ ~HasNull(assessment.your_metrics)
    /\ \A i \in 1..Len(assessment.competitor_analysis) :
          ~HasNull(assessment.competitor_analysis[i])

\* C14: for every own-metrics record, authority dictionary and SERP sequence,
\* with fields missing or null, calculate_competition_assessment does not raise
\* and what it returns is fully populated.
C14_NeverRaises ==
    /\ pc # "raised"
    /\ Returned => FullyPopulated

\* the page request failed: an exception of the request, an error status, an
\* exception of the parse, or a parsed document without body
IsFailure(response) ==
    \/ response.kind \in {"connection_error", "timeout", "parse_error", "http_error"}
    \/ response.kind = "html" /\ response.main = None /\ response.body = None

\* the words of the region a successful parse counts
CountedWords(response) ==
    IF response.main # None THEN response.main ELSE response.body

\* C15: no outcome of the page request makes get_actual_word_count raise; a
\* failed request (network error, timeout, error status, parse failure, no
\* body) returns None, seen as fetched = FALSE and the 2000 fallback, and a
\* successful parse returns its integer count, seen as fetched = TRUE and as
\* the sample when it passes the sanity check.
C15_FetcherNeverRaises ==
    /\ pc # "raised"
    /\ \A i \in 1..Len(detailed_estimates) :
          LET response == fetch_outcome[fetched_urls[i]]
          IN  /\ IsFailure(response) =>
                    /\ detailed_estimates[i].fetched = FALSE
                    /\ word_counts[i] = 2000
              /\ ~IsFailure(response) =>
                    /\ detailed_estimates[i].fetched = TRUE
                    /\ CountedWords(response) > 100 =>
                          word_counts[i] = CountedWords(response)

C15_Witness ==
    /\ Estimated
    /\ \E i, j, k, l \in 1..Len(detailed_estimates) :
          /\ fetch_outcome[i] = ErrorPage(1800) /\ ~detailed_estimates[i].fetched
          /\ fetch_outcome[j] = NoBody /\ ~detailed_estimates[j].fetched
          /\ fetch_outcome[k] = BodyOnly(150) /\ detailed_estimates[k].fetched
          /\ word_counts[k] = 150
          /\ fetch_outcome[l] = Failed("timeout") /\ ~detailed_estimates[l].fetched

\* the SERP step of main has returned with organic items
SerpStepDone == pc \notin {"step1", "step2"} /\ provider.serp.kind = "ok"

\* the domains get_domain_metrics asks the provider about
Asked ==
    {clean(provider.serp.items[i].domain) : i \in 1..Len(provider.serp.items)}
    \cup {your_domain}

\* C16: when the provider answers the domain-authority lookup with a body of
\* unexpected shape, the caller receives a reported failure, not a metrics
\* result that is empty or lacks the domain as if it were not found.
C16_MalformedIsReported ==
    SerpStepDone =>
        ((\E d \in Asked : provider.authority[d] \in Malformed)
            => "error" \in DOMAIN main.serp_results)

\* C17: a SERP entry is scored as a competitor whenever the dictionary holds
\* a record under the normalized form of its domain: the entry 'www.a.com'
\* has a record in competitor_analysis when the metrics are stored under
\* 'a.com'.
C17_MatchedAfterNormalization ==
    (pc \in {"done", "step6", "step7", "main_done"} /\ main # NotInMain) =>
        \A p \in 1..Len(serp_results) :
            clean(serp_results[p].domain) \in DOMAIN competitor_metrics_dict =>
                \E i \in 1..Len(assessment.competitor_analysis) :
                    assessment.competitor_analysis[i].position = p

\* the SERP step returned results and the authority data holds no record of
\* your own domain
OwnDomainAbsent ==
    /\ SerpStepDone
    /\ your_domain \notin DOMAIN main.serp_results.domain_metrics

AssessmentStarted ==
    pc \notin {"step1", "step2", "step3", "step4"}

\* the record of a competitor is scored with the ceilings:
\* min(100, 50 * pos_1 / 100 + 30 * etv / 10000 + 20 * keywords / 5000)
ScoredWithCeilings(r) ==
    LET sum == [num |-> 5000 * r.pos_1 + 30 * r.etv + 40 * r.keywords, den |-> 10000]
        capped == IF sum.num > 100 * sum.den THEN [num |-> 100, den |-> 1] ELSE sum
    IN  r.strength_score \in Round1(capped)

OwnZerosInOutput ==
    Returned =>
        /\ assessment.your_metrics = NoMetrics
        /\ \A i \in 1..Len(assessment.competitor_analysis) :
              ScoredWithCeilings(assessment.competitor_analysis[i])

\* C18: when the authority data holds no record of your own domain, the
\* assessment is produced without an error, its your_metrics are all zero and
\* every competitor is scored with the ceilings 100 / 10000 / 5000.
C18_OwnDomainAbsentIsZeros ==
    (OwnDomainAbsent /\ AssessmentStarted) =>
        /\ pc # "raised"
        /\ OwnZerosInOutput

\* the same without the abort: whatever is returned was scored against zeros
C18_ReturnedWithZeros ==
    (OwnDomainAbsent /\ AssessmentStarted) => OwnZerosInOutput

C18_ReturnedWithZerosWitness ==
    /\ OwnDomainAbsent
    /\ Returned
    /\ \E i \in 1..Len(assessment.competitor_analysis) :
          assessment.competitor_analysis[i].pos_1 = 120
          /\ assessment.competitor_analysis[i].strength_score = 600

BriefGenerated == pc \in {"step7", "main_done"}

\* what the assessment is after a failed SERP fetch
DefaultPopulated ==
    /\ assessment.competitor_analysis = <<>>
    /\ assessment.overall_score = 0
    /\ assessment.your_metrics = NoMetrics
    /\ assessment.content_length_analysis = DefaultProfile

\* every item of the SERP answer carries a title
AllTitled ==
    \A i \in 1..Len(provider.serp.items) : "title" \in DOMAIN provider.serp.items[i]

\* C19: after the API-key check, whatever the keyword, SERP, domain-metrics
\* and page-fetch steps return, main() never aborts: it calls
\* calculate_competition_assessment, which returns, and then
\* generate_content_brief; after a failed SERP fetch the assessment is the
\* default-populated one.
C19_AlwaysReachesBrief ==
    /\ pc # "raised"
    /\ BriefGenerated => (assessment # NoResult /\ main.content_brief # "unset")
    /\ (Returned /\ provider.serp.kind # "ok") => DefaultPopulated

\* the same for the runs in which every SERP item carries a title
C19_ReachesBriefWhenTitled ==
    AllTitled => C19_AlwaysReachesBrief

C19_ReachesBriefWhenTitledWitness ==
    /\ pc = "main_done"
    /\ provider.serp.kind = "request_failed"
    /\ provider.keyword = "error"
    /\ DefaultPopulated
    /\ main.content_brief = "error text"

\* the samples in SERP order, as the sequential loop collects them
SequentialSamples == [i \in 1..AnalyzedCount |-> SampleOf(Returns[i])]

SameProfile(p, q) ==
    /\ p.average = q.average
    /\ p.median = q.median
    /\ p.min = q.min
    /\ p.max = q.max
    /\ p.recommended_min = q.recommended_min
    /\ p.recommended_max = q.recommended_max

\* C20: in whatever order the page fetches of the first four entries complete,
\* the profile (average, median, min, max, recommended band) is the one of the
\* sequential top-to-bottom fetch with the same outcome per page.
C20_OrderIndependentProfile ==
    Estimated =>
        SameProfile(content_length_analysis, Statistics(SequentialSamples, <<>>))

C20_Witness ==
    /\ Estimated
    /\ Len(word_counts) = 4
    /\ fetched_urls = <<3, 1, 4, 2>>
    /\ word_counts = <<3000, 2000, 1800, 2200>>
    /\ content_length_analysis.median = 2200

\* what round(x, 1) gave in the run of the simple variant, by SERP position
RoundedInRun ==
    [p \in {assessment.competitor_analysis[i].position :
               i \in 1..Len(assessment.competitor_analysis)} |->
        LET r == CHOOSE r \in {assessment.competitor_analysis[i] :
                                  i \in 1..Len(assessment.competitor_analysis)} :
                     r.position = p
        IN  [seen |-> RawOf(r), tenths |-> r.strength_score]]

OverallInRun == [seen |-> UnroundedOverall, tenths |-> assessment.overall_score]

\* what the web-UI variant returns for the arguments and pages of this run
WebUiAssessment == streamlit_calculate_competition_assessment(RoundedInRun, OverallInRun)

OrderAndScores(analysis) ==
    [i \in 1..Len(analysis) |->
        [domain |-> analysis[i].domain, position |-> analysis[i].position,
         strength_score |-> analysis[i].strength_score]]

\* C21: for the same own metrics, authority dictionary, SERP entries and page
\* outcomes, the web-UI variant returns the competitors in the same order with
\* the same strength_score each, the same overall_score and target_position
\* and the same content-length profile as the simple variant.
C21_VariantsAgree ==
    Returned =>
        /\ OrderAndScores(WebUiAssessment.competitor_analysis)
              = OrderAndScores(assessment.competitor_analysis)
        /\ WebUiAssessment.overall_score = assessment.overall_score
        /\ WebUiAssessment.target_position = assessment.target_position
        /\ WebUiAssessment.content_length_analysis = assessment.content_length_analysis

\* four competitors scored against the ceilings, one of them on a rounding
\* tie, samples fetched and substituted, and the texts of the two variants differ
C21_Witness ==
    /\ Returned
    /\ your_domain_metrics = M(0, 0, 0)
    /\ Len(assessment.competitor_analysis) >= 4
    /\ \E i \in 1..Len(assessment.competitor_analysis) :
          Round1(RawOf(assessment.competitor_analysis[i])) = {6, 7}
    /\ assessment.content_length_analysis.min = 1800
    /\ assessment.content_length_analysis.max = 2000
    /\ WebUiAssessment.verdict # assessment.verdict
    /\ WebUiAssessment.target_position = "1-3"

\* C22: for a non-empty sample list the reported median is the element at
\* index floor(len / 2) of the ascending samples: at most floor(len / 2)
\* samples lie below it and at least floor(len / 2) + 1 are not above it, so
\* it is the upper-middle value for 2 or 4 samples and the middle one for 1 or 3.
C22_MedianIsUpperMiddle ==
    (Estimated /\ word_counts # <<>>) =>
        LET median == content_length_analysis.median
            k == Len(word_counts) \div 2
            below == {i \in 1..Len(word_counts) : word_counts[i] < median}
            not_above == {i \in 1..Len(word_counts) : word_counts[i] <= median}
        IN  /\ \E i \in 1..Len(word_counts) : word_counts[i] = median
            /\ Cardinality(below) <= k
            /\ Cardinality(not_above) >= k + 1

\* four samples filled out of order whose middle values 2000 and 2200 differ:
\* the median is 2200, not their mean 2100
C22_Witness ==
    /\ Estimated
    /\ word_counts = <<3000, 1800, 2000, 2200>>
    /\ content_length_analysis.median = 2200

\* the urls of the entries the estimator analyzes, in SERP order
AnalyzedUrls ==
    [i \in 1..Min(4, Len(serp_results)) |-> serp_results[i].url]

\* C23: in one run of estimate_content_length the page requests sent so far
\* are the urls of the first entries, one request each in SERP order; a step
\* sends at most one request, for the next entry, whether or not the earlier
\* ones failed; at the end min(4, N) requests have been sent.
C23_OneRequestPerEntry ==
    /\ [](/\ Len(fetched_urls) <= Len(AnalyzedUrls)
          /\ fetched_urls = SubSeq(AnalyzedUrls, 1, Len(fetched_urls))
          /\ Estimated => Len(fetched_urls) = Min(4, Len(serp_results)))
    /\ [][\/ fetched_urls' = fetched_urls
          \/ /\ Len(fetched_urls) < Len(serp_results)
             /\ fetched_urls' =
                    Append(fetched_urls, serp_results[Len(fetched_urls) + 1].url)]_vars

\* five entries whose first and third requests fail: four requests, no
\* second one for the failed pages and none for the fifth entry
C23_Witness ==
    /\ Estimated
    /\ Len(serp_results) = 5
    /\ Returns[1] = None
    /\ Returns[3] = None
    /\ Returns[2] = 1800
    /\ fetched_urls = <<1, 2, 3, 4>>

\* the band of a score stored in tenths
BandOfStored(tenths) ==
    IF tenths <= 300 THEN 1 ELSE IF tenths <= 600 THEN 2 ELSE IF tenths <= 850 THEN 3 ELSE 4

\* C24: in every returned competitor record the difficulty label is the band
\* of the strength_score stored in the same record: WEAK for a stored score
\* of at most 30, MEDIUM up to 60, STRONG up to 85, DOMINANT above.
C24_LabelIsBandOfStoredScore ==
    Returned =>
        \A i \in 1..Len(assessment.competitor_analysis) :
            LET r == assessment.competitor_analysis[i]
            IN  r.difficulty = DifficultyLabels[BandOfStored(r.strength_score)]

\* C25: in every returned assessment the verdict and the target_position are
\* those of the band of the overall_score reported in the same assessment:
\* LOW and "1-3" for a reported score of at most 30, MEDIUM and "3-5" up to
\* 60, HIGH and "5-10" up to 85, VERY HIGH and "10-20 initially" above.
C25_VerdictIsBandOfReportedScore ==
    Returned =>
        LET band == BandOfStored(assessment.overall_score)
        IN  /\ assessment.verdict = Verdicts[band]
            /\ assessment.target_position
                  = <<"1-3", "3-5", "5-10", "10-20 initially">>[band]

\* x <= y for two fractions
FracNotAbove(x, y) == x.num * y.den <= y.num * x.den

OwnPos1Values == {0, 1, 50, 100, 200, 400}

OwnEtvValues == {0, 1, 10000, 20000, 40000}

OwnKeywordsValues == {0, 1, 3000, 5000, 6000}

\* own metrics that differ from own in one metric, which is larger
RaisedInOne(own) ==
    {[own EXCEPT !.pos_1 = v] : v \in {v \in OwnPos1Values : v > own.pos_1}}
    \cup {[own EXCEPT !.etv = v] : v \in {v \in OwnEtvValues : v > own.etv}}
    \cup {[own EXCEPT !.keywords = v] : v \in {v \in OwnKeywordsValues : v > own.keywords}}

\* no metric of own that is 0 is below its ceiling in raised
ZeroStepsReachCeiling(own, raised) ==
    /\ own.pos_1 = 0 => raised.pos_1 \in {0} \cup {v \in OwnPos1Values : v >= 100}
    /\ own.etv = 0 => raised.etv \in {0} \cup {v \in OwnEtvValues : v >= 10000}
    /\ own.keywords = 0 => raised.keywords \in {0} \cup {v \in OwnKeywordsValues : v >= 5000}

\* the score of the competitor of record r against raised is not above the
\* one it got in this run, unrounded and rounded
NotStronger(r, raised) ==
    LET before == RawOf(r)
        after == StrengthScore(raised, MetricsOf(r))
    IN  /\ FracNotAbove(after, before)
        /\ after # before => \A t \in Round1(after) : t <= r.strength_score

\* C26 as stated: a competitor scored in this run gets no higher score
\* against own metrics of which one is larger, the step from 0 included.
C26_AsStated ==
    Returned =>
        \A i \in 1..Len(assessment.competitor_analysis) :
            \A raised \in RaisedInOne(your_domain_metrics) :
                NotStronger(assessment.competitor_analysis[i], raised)

\* C26: a competitor scored in this run gets no higher score against own
\* metrics of which one is larger, when the metric was positive before or
\* is raised from 0 to at least its ceiling (100 / 10000 / 5000).
C26_MonotoneAboveCeiling ==
    Returned =>
        \A i \in 1..Len(assessment.competitor_analysis) :
            \A raised \in RaisedInOne(your_domain_metrics) :
                ZeroStepsReachCeiling(your_domain_metrics, raised)
                    => NotStronger(assessment.competitor_analysis[i], raised)

\* a competitor with pos_1 60 scored 30.0 against own metrics 0 scores the
\* same against own pos_1 100 and 15 against own pos_1 200
C26_Witness ==
    /\ Returned
    /\ your_domain_metrics = M(0, 0, 0)
    /\ \E i \in 1..Len(assessment.competitor_analysis) :
          LET r == assessment.competitor_analysis[i]
          IN  /\ MetricsOf(r) = M(60, 0, 0)
              /\ r.strength_score = 300
              /\ M(100, 0, 0) \in RaisedInOne(your_domain_metrics)
              /\ StrengthScore(M(100, 0, 0), MetricsOf(r)) = Frac(30, 1)
              /\ StrengthScore(M(200, 0, 0), MetricsOf(r)) = Frac(15, 1)

\* the sum of the weights of the metrics of own that are positive
WeightOfPositive(own) ==
    (IF own.pos_1 > 0 THEN 50 ELSE 0) + (IF own.etv > 0 THEN 30 ELSE 0)
        + (IF own.keywords > 0 THEN 20 ELSE 0)

\* the returned records of the entries of the own domain
OwnRecords ==
    {r \in {assessment.competitor_analysis[i] :
               i \in 1..Len(assessment.competitor_analysis)} : r.domain = your_domain}

\* the SERP positions of the own domain (io.net)
OwnPositions ==
    {i \in 1..Len(serp_results) : serp_results[i].domain = your_domain}

\* C27: when the own domain is among the SERP entries and its record is in
\* the authority dictionary main() passes, each of its entries is scored as a
\* competitor against its own metrics: the strength_score is the sum of the
\* weights (50, 30, 20) of its positive metrics, so 100 with the label
\* DOMINANT when all three are positive.
C27_OwnDomainScoredAgainstItself ==
    (Returned /\ main # NotInMain /\ your_domain \in DOMAIN competitor_metrics_dict) =>
        /\ competitor_metrics_dict[your_domain] = your_domain_metrics
        /\ {r.position : r \in OwnRecords} = OwnPositions
        /\ \A r \in OwnRecords :
              /\ MetricsOf(r) = your_domain_metrics
              /\ r.strength_score = 10 * WeightOfPositive(your_domain_metrics)
              /\ (\A k \in {"pos_1", "etv", "keywords"} : your_domain_metrics[k] > 0)
                    => r.strength_score = 1000 /\ r.difficulty = DifficultyLabels[4]

\* the own domain at position 2 behind a.com, all three own metrics positive:
\* its record has the score 100 and the label DOMINANT
C27_Witness ==
    /\ Returned
    /\ main # NotInMain
    /\ your_domain_metrics = M(50, 20000, 3000)
    /\ Len(serp_results) = 2
    /\ serp_results[1].domain = "a.com"
    /\ OwnPositions = {2}
    /\ \E r \in OwnRecords :
          r.position = 2 /\ r.strength_score = 1000 /\ r.difficulty = DifficultyLabels[4]

\* the own domain with pos_1 as its only positive metric: score 50
C27_WitnessOneMetric ==
    /\ Returned
    /\ main # NotInMain
    /\ your_domain_metrics = M(200, 0, 0)
    /\ \E r \in OwnRecords : r.strength_score = 500 /\ r.difficulty = DifficultyLabels[2]

ReturnedRecords ==
    {assessment.competitor_analysis[i] : i \in 1..Len(assessment.competitor_analysis)}

RecordAt(p) == CHOOSE r \in ReturnedRecords : r.position = p

\* the records of the run on the same SERP without its entry k, as the loop
\* fills them (SERP order)
ScoredWithout(k) ==
    LET kept == SelectSeq([p \in 1..Len(serp_results) |-> p],
                          LAMBDA p : p # k /\ \E r \in ReturnedRecords : r.position = p)
    IN  [i \in 1..Len(kept) |-> RecordAt(kept[i])]

\* at least five of the records have a score of at most tenths: the
\* fifth-weakest score is not above tenths
FifthWeakestNotAbove(records, tenths) ==
    Cardinality({i \in 1..Len(records) : records[i].strength_score <= tenths}) >= 5

CannedOf(recommendations, band) ==
    /\ Len(recommendations) >= Len(CannedRecommendations[band])
    /\ \A i \in 1..Len(CannedRecommendations[band]) :
          /\ recommendations[i].text = CannedRecommendations[band][i]
          /\ recommendations[i].domains = <<>>

\* C28: when the SERP without one of its scored entries has at least five
\* scored competitors and the score of that entry is not below the
\* fifth-weakest of them, the run with the entry returns the overall_score,
\* verdict, target_position and canned recommendations of the run without it.
C28_StrongerEntryChangesNothing ==
    Returned =>
        \A r \in ReturnedRecords :
            LET others == ScoredWithout(r.position)
                before == OverallScore(Top5(SortByStrength(others)))
            IN  (Len(others) >= 5 /\ FifthWeakestNotAbove(others, r.strength_score)) =>
                    /\ UnroundedOverall = before
                    /\ assessment.overall_score \in Round1(before)
                    /\ assessment.verdict = Verdicts[Band(before)]
                    /\ assessment.target_position
                          = <<"1-3", "3-5", "5-10", "10-20 initially">>[Band(before)]
                    /\ CannedOf(assessment.recommendations, Band(before))

\* six scored competitors; the entry at SERP position 1 has the score of the
\* strongest of the other five, which the stable sort puts behind it: the five
\* weakest of the run with the entry include it and not that other record
C28_Witness ==
    /\ Returned
    /\ Len(assessment.competitor_analysis) = 6
    /\ LET r == RecordAt(1)
           others == SortByStrength(ScoredWithout(1))
       IN  /\ others[5].strength_score = r.strength_score
           /\ others[4].strength_score < r.strength_score
           /\ assessment.competitor_analysis[5] = r
           /\ assessment.competitor_analysis[6] = others[5]
    /\ assessment.overall_score > 300

\* six scored competitors; the entry at SERP position 2 is stronger than each
\* of the other five
C28_WitnessStrictlyStronger ==
    /\ Returned
    /\ Len(assessment.competitor_analysis) = 6
    /\ \A i \in 1..Len(ScoredWithout(2)) :
          ScoredWithout(2)[i].strength_score < RecordAt(2).strength_score
    /\ assessment.overall_score > 300

\* C29: in every detailed_estimates entry the flag fetched is false exactly
\* when actual_words is the substituted fallback 2000, that is when the
\* fetcher returned nothing or a count that fails the sanity floor; a page
\* whose count fails the floor is not reported as fetched.
C29_FetchedIffNotSubstituted ==
    Estimated =>
        \A i \in 1..Len(detailed_estimates) :
            LET returned == Returns[serp_results[i].url]
                substituted == returned = None \/ returned <= 100
            IN  /\ substituted => detailed_estimates[i].actual_words = 2000
                /\ detailed_estimates[i].fetched = ~substituted

\* how many elements of the list of urls are u
CountIn(list, u) == Cardinality({i \in 1..Len(list) : list[i] = u})

ResultUrls == [i \in 1..Len(results) |-> results[i].url]

\* C30: concurrent_fetch_sources returns one record per element of urls,
\* duplicates included: every url is the url of as many records as it has
\* elements in urls, and at no moment of more; this for every order in which
\* the threads finish and every set of failed fetches.
C30_OneRecordPerUrl ==
    /\ \A u \in CrewUrls : CountIn(ResultUrls, u) <= CountIn(urls, u)
    /\ pc = "crew_done" =>
          /\ Len(results) = Len(urls)
          /\ \A u \in CrewUrls : CountIn(ResultUrls, u) = CountIn(urls, u)

\* three urls, the first one twice; the pool has two threads, the fetch of
\* the second url failed and finished first: its record comes first
C30_Witness ==
    /\ pc = "crew_done"
    /\ max_workers = 2
    /\ urls = <<"https://a.com/x", "https://b.com/y", "https://a.com/x">>
    /\ ResultUrls = <<"https://b.com/y", "https://a.com/x", "https://a.com/x">>
    /\ results[1].snippet = ""
    /\ results[2].title = "Page title"

====
